---- MODULE Spec2Model ----
(***************************************************************************)
(* OCTOPUS-CONSCIOUSNESS: the coordinator's bid protocol                   *)
(* (src/src/manto/agente_manto.py, src/src/tentaculos/base_tentaculo.py)   *)
(* and the TTL + LRU cache (src/src/tentaculos/estrategista/cache.py).     *)
(*                                                                         *)
(* Floats are scaled to integers: confianca in hundredths, time in whole   *)
(* ticks of the clock read by time.time().                                 *)
(***************************************************************************)
EXTENDS Integers, Sequences, FiniteSets, TLC

(***************************************************************************)
(* Bounds                                                                  *)
(***************************************************************************)
NumTentaculos == 3
MaxSize == 2
TtlSegundos == 1
MaxTempo == 2
MaxChamadas == 2
MaxChamadasRede == 2
MaxPassos == 2
MaxAssinantes == 2
MaxPassosPlano == 2
MaxPlanos == 2
MaxPropostas == 1
MaxRelogio == 2
\* TAMANHO_MAX_CACHE and TEMPO_EXPIRACAO_CACHE_MINUTOS, scaled down
TamanhoMaxCache == 1
ExpiracaoCache == 1

(***************************************************************************)
(* ConfigBusca, tentaculo_busca.py:22-28                                   *)
(***************************************************************************)
TIMEOUT_CONSULTA_SEGUNDOS == 15
MAX_RETRIES == 3
BACKOFF_BASE_SEGUNDOS == 1

(***************************************************************************)
(* Program data                                                            *)
(***************************************************************************)
\* plano, agente_manto.py:23-27
Plano == <<"T1", "T2", "T3">>

\* ids of the agents handed to RedeDeTentaculos.__init__, in registration order
Tentaculos == 1..NumTentaculos

\* confianca_base + random.uniform(-0.1, 0.09), in hundredths
Confiancas == {80, 90}

\* random.uniform(1, 5)
Custos == {1, 2}

\* what an agent's executar returns: a result string or a failure payload
Desfechos == {"ok", "falha"}

\* resultados_finais.get(..., 'N/A')
NA == "N/A"

\* the string returned by executar_missao for an unknown id
ErroRota == "Erro: Tentaculo nao encontrado."

\* the keys the callers use
Chaves == {1, 2, 3}
Dados == {"d1", "d2"}
Ausente == "None"

VARIABLES
    \* ---- Manto.decompor_e_orquestrar ----
    pc,                 \* position in decompor_e_orquestrar
    indice,             \* index in plano of the task of the current iteration
    propostas,          \* bids returned by broadcast for the current task
    escolhido,          \* id_tentaculo_escolhido
    resultados_finais,  \* dict id_tarefa -> resultado
    sintese,            \* the final report, <<>> until it is produced
    transmitidas,       \* history: tasks broadcast so far, in order
    despachos,          \* history: the task of every executar_missao, in order
    puladas,            \* history: tasks that got no bid
    \* ---- CacheEstrategia ----
    cache,              \* the OrderedDict, oldest entry first
    agora,              \* the clock read by time.time()
    ultimaOp,           \* history: the last step and what its lazy eviction did
    recencia,           \* history: stored keys by last touch (set or get hit)
    ultimoSet,          \* history: time of the last set of each stored key
    \* ---- TentaculoBusca ----
    status,             \* self.status
    cache_buscas,       \* self.cache_buscas, in insertion order
    metricas,           \* self.metricas
    relogio,            \* the clock read by datetime.now()
    iniciadas,          \* history: number of executar calls started
    chamada,            \* the executar calls: position, locals and history
    anterior,           \* history: the call that returned last before the newest one began
    \* ---- RedeDeTentaculos ----
    invocacoes,         \* history: how often each agent's executar was invoked
    ultimaRede,         \* history: the last call on the registry and what it returned
    \* ---- gerar_proposta ----
    proposta,           \* history: the last bid handed out by a gerar_proposta
    \* ---- ConscienciaCentral and BarramentoEventos ----
    cpc,                \* position in processar_missao
    plano_tatico,       \* the lines of the tactical plan
    passo_i,            \* index in plano_tatico of the step of the current iteration
    restantes,          \* the callbacks that the publicar in progress has still to await
    eventos,            \* history: the types of the events published for the mission
    assinantes,         \* BarramentoEventos.assinantes
    delegacoes,         \* history: the executar_tarefa calls made for the mission
    entregas,           \* history: the callbacks that the last publicar has awaited, in order
    \* ---- TentaculoEstrategista ----
    epc,                \* position in executar_plano
    habilitado,         \* self.habilitado
    passos,             \* plano.passos of the plan handed to executar_plano
    passo_e,            \* index in passos of the step of the current iteration
    metricasEst,        \* self.metricas of the Estrategista
    resultadoEst,       \* the ResultadoEstrategia returned last
    plano_em_cache,     \* self.cache holds, under the key of the objective, the plan object in passos
    retornoPlano        \* history: what planejar_acao returned last, as it was at the return

mantoVars == <<pc, indice, propostas, escolhido, resultados_finais, sintese,
               transmitidas, despachos, puladas>>
cacheVars == <<cache, agora, ultimaOp, recencia, ultimoSet>>
buscaVars == <<status, cache_buscas, metricas, relogio, iniciadas, chamada, anterior>>
redeVars == <<invocacoes, ultimaRede>>
propVars == <<proposta>>
consVars == <<cpc, plano_tatico, passo_i, restantes, eventos, assinantes, delegacoes, entregas>>
planVars == <<plano_em_cache, retornoPlano>>
estVars == <<epc, habilitado, passos, passo_e, metricasEst, resultadoEst, planVars>>
demaisVars == <<redeVars, propVars, consVars, estVars>>
vars == <<mantoVars, cacheVars, buscaVars, demaisVars>>

(***************************************************************************)
(* Helpers                                                                 *)
(***************************************************************************)
Range(s) == {s[i] : i \in 1..Len(s)}

\* dict.get(k, default)
DictGet(d, k, default) == IF k \in DOMAIN d THEN d[k] ELSE default

\* d[k] = v
DictSet(d, k, v) == [x \in (DOMAIN d) \cup {k} |-> IF x = k THEN v ELSE d[x]]

(***************************************************************************)
(* RedeDeTentaculos and BaseTentaculo                                      *)
(***************************************************************************)
\* A bid as built by BaseTentaculo.gerar_proposta
Proposta(a, conf, custo) ==
    [id_tentaculo |-> a, confianca |-> conf, custo_estimado |-> custo]

\* The outcomes of one broadcast round: every registered agent either
\* declines (pode_executar is False) or bids; the list is in the order of
\* self.tentaculos.values(), which is the registration order.
RECURSIVE ListaPropostas(_, _)
ListaPropostas(resposta, a) ==
    IF a > NumTentaculos THEN <<>>
    ELSE IF resposta[a].aceita
         THEN <<Proposta(a, resposta[a].confianca, resposta[a].custo)>>
              \o ListaPropostas(resposta, a + 1)
         ELSE ListaPropostas(resposta, a + 1)

Respostas == [Tentaculos -> [aceita : BOOLEAN, confianca : Confiancas, custo : Custos]]

\* A declining agent makes no bid, so its confianca and custo are fixed to
\* keep the enumeration free of duplicates.
RespostasNormais ==
    {r \in Respostas : \A a \in Tentaculos :
        ~r[a].aceita => (r[a].confianca = 80 /\ r[a].custo = 1)}

\* the bids from the last registered agent to the first
RECURSIVE Inverter(_)
Inverter(s) == IF s = <<>> THEN <<>> ELSE Append(Inverter(Tail(s)), Head(s))

\* broadcast, lines 71-77
BroadcastInvertido(resposta) == Inverter(ListaPropostas(resposta, 1))

Broadcast(resposta) == ListaPropostas(resposta, 1)

\* executar_missao: the agent's executar if the id is registered
ExecutarMissaoSemRota(id, desfecho) == desfecho

ExecutarMissao(id, desfecho) ==
    IF id \in Tentaculos THEN desfecho ELSE ErroRota

\* the executar invocations after executar_missao(id, ...), lines 81-82
InvocacoesApos(inv, id) ==
    IF id \in Tentaculos THEN [inv EXCEPT ![id] = @ + 1] ELSE inv

\* the ids a caller may hand to executar_missao: 0 and NumTentaculos + 1
\* are not in the registry
IdsChamados == 0..(NumTentaculos + 1)

\* the answers of the agents to one broadcast; the cost an agent estimates
\* plays no part in the registry
RespostasRede == {r \in RespostasNormais : \A a \in Tentaculos : r[a].custo = 1}

\* the record of a call on the registry
ChamadaRede(tipo, resposta, id, desfecho, retorno) ==
    [n |-> ultimaRede.n + 1, tipo |-> tipo, resposta |-> resposta, id |-> id,
     desfecho |-> desfecho, retorno |-> retorno]

\* every agent declines
TodosRecusam == [a \in Tentaculos |-> [aceita |-> FALSE, confianca |-> 80, custo |-> 1]]

\* a caller runs rede.broadcast(token)
ChamarBroadcast ==
    /\ ultimaRede.n < MaxChamadasRede
    /\ \E resposta \in RespostasRede :
          ultimaRede' = ChamadaRede("broadcast", resposta, 0, "", Broadcast(resposta))
    /\ UNCHANGED invocacoes
    /\ UNCHANGED <<mantoVars, cacheVars, buscaVars, propVars, consVars, estVars>>

\* a caller runs rede.executar_missao(id, token)
ChamarExecutarMissao ==
    /\ ultimaRede.n < MaxChamadasRede
    /\ \E id \in IdsChamados, desfecho \in Desfechos :
          /\ invocacoes' = InvocacoesApos(invocacoes, id)
          /\ ultimaRede' = ChamadaRede("executar_missao", TodosRecusam, id, desfecho,
                                       <<ExecutarMissao(id, desfecho)>>)
    /\ UNCHANGED <<mantoVars, cacheVars, buscaVars, propVars, consVars, estVars>>

\* Manto.decompor_e_orquestrar, lines 50-55, for a selected bid that names
\* id: the mission is dispatched and whatever comes back is recorded
DespacharProposta ==
    /\ ultimaRede.n < MaxChamadasRede
    /\ \E t \in Range(Plano), id \in IdsChamados, desfecho \in Desfechos :
          /\ invocacoes' = InvocacoesApos(invocacoes, id)
          /\ resultados_finais' =
                DictSet(resultados_finais, t, ExecutarMissao(id, desfecho))
          /\ ultimaRede' = ChamadaRede("despacho", TodosRecusam, id, desfecho,
                                       <<ExecutarMissao(id, desfecho)>>)
    /\ UNCHANGED <<pc, indice, propostas, escolhido, sintese, transmitidas,
                   despachos, puladas>>
    /\ UNCHANGED <<cacheVars, buscaVars, propVars, consVars, estVars>>

NextRede ==
    \/ ChamarBroadcast
    \/ ChamarExecutarMissao
    \/ DespacharProposta

\* RedeDeTentaculos.__init__, lines 68-69
InitRede ==
    /\ invocacoes = [a \in Tentaculos |-> 0]
    /\ ultimaRede = [n |-> 0, tipo |-> "nenhuma", resposta |-> TodosRecusam, id |-> 0,
                     desfecho |-> "", retorno |-> <<>>]

(***************************************************************************)
(* Manto.decompor_e_orquestrar                                             *)
(***************************************************************************)
\* a max that keeps the last maximal element
MelhorPropostaUltima(ps) ==
    ps[CHOOSE i \in 1..Len(ps) :
        /\ \A j \in 1..Len(ps) : ps[j].confianca <= ps[i].confianca
        /\ \A j \in (i+1)..Len(ps) : ps[j].confianca < ps[i].confianca]

\* max(propostas, key=lambda p: p['confianca']): the first maximal element
MelhorProposta(ps) ==
    ps[CHOOSE i \in 1..Len(ps) :
        /\ \A j \in 1..Len(ps) : ps[j].confianca <= ps[i].confianca
        /\ \A j \in 1..(i-1) : ps[j].confianca < ps[i].confianca]

\* the for loop's step: the next task, or the synthesis after the last one
ProximoIndiceSalta(i) == IF i + 1 >= Len(Plano) THEN i ELSE i + 2

ProximaEtapa(i) == IF i >= Len(Plano) THEN "sintetizar" ELSE "broadcast"
ProximoIndice(i) == IF i >= Len(Plano) THEN i ELSE i + 1

\* the report of line 60
TextoSinteseSemPadrao(res) ==
    [t \in {"T1", "T2"} \cap DOMAIN res |-> res[t]]

TextoSintese(res) ==
    [t \in {"T1", "T2"} |-> DictGet(res, t, NA)]

\* lines 19-32: a goal arrives, the plan is built, resultados_finais = {}
ReceberObjetivo ==
    /\ pc \in {"ocioso", "sintetizado"}
    /\ pc' = "broadcast"
    /\ indice' = 1
    /\ propostas' = <<>>
    /\ escolhido' = 0
    /\ resultados_finais' = <<>>
    /\ sintese' = <<>>
    /\ transmitidas' = <<>>
    /\ despachos' = <<>>
    /\ puladas' = {}
    /\ UNCHANGED <<cacheVars, buscaVars, demaisVars>>

\* lines 33-42: the token is broadcast and the bids are collected
ColetarPropostas ==
    /\ pc = "broadcast"
    /\ \E resposta \in RespostasNormais :
          propostas' = Broadcast(resposta)
    /\ transmitidas' = Append(transmitidas, Plano[indice])
    /\ pc' = "avaliar"
    /\ UNCHANGED <<indice, escolhido, resultados_finais, sintese, despachos, puladas>>
    /\ UNCHANGED <<cacheVars, buscaVars, demaisVars>>

\* lines 44-46: no bid, the step is abandoned and the loop continues
SemPropostasAborta ==
    /\ pc = "avaliar"
    /\ propostas = <<>>
    /\ puladas' = puladas \cup {Plano[indice]}
    /\ pc' = "sintetizar"
    /\ UNCHANGED <<indice, propostas, escolhido, resultados_finais, sintese,
                   transmitidas, despachos>>
    /\ UNCHANGED <<cacheVars, buscaVars, demaisVars>>

SemPropostasRepete ==
    /\ pc = "avaliar"
    /\ propostas = <<>>
    /\ puladas' = puladas \cup {Plano[indice]}
    /\ pc' = "broadcast"
    /\ transmitidas' = SubSeq(transmitidas, 1, Len(transmitidas) - 1)
    /\ UNCHANGED <<indice, propostas, escolhido, resultados_finais, sintese,
                   despachos>>
    /\ UNCHANGED <<cacheVars, buscaVars, demaisVars>>

SemPropostas ==
    /\ pc = "avaliar"
    /\ propostas = <<>>
    /\ puladas' = puladas \cup {Plano[indice]}
    /\ pc' = ProximaEtapa(indice)
    /\ indice' = ProximoIndice(indice)
    /\ UNCHANGED <<propostas, escolhido, resultados_finais, sintese,
                   transmitidas, despachos>>
    /\ UNCHANGED <<cacheVars, buscaVars, demaisVars>>

\* lines 48-51: the strategic selection
Selecionar ==
    /\ pc = "avaliar"
    /\ propostas # <<>>
    /\ escolhido' = MelhorProposta(propostas).id_tentaculo
    /\ pc' = "executar"
    /\ UNCHANGED <<indice, propostas, resultados_finais, sintese,
                   transmitidas, despachos, puladas>>
    /\ UNCHANGED <<cacheVars, buscaVars, demaisVars>>

\* lines 53-56: the mission is executed and its result recorded; the locals
\* propostas and id_tentaculo_escolhido are dead from here on (they are
\* reassigned before their next read) and are cleared
ExecutarERegistrarAborta ==
    /\ pc = "executar"
    /\ \E desfecho \in Desfechos :
          /\ resultados_finais' =
                DictSet(resultados_finais, Plano[indice],
                        ExecutarMissao(escolhido, desfecho))
          /\ pc' = IF desfecho = "falha" THEN "sintetizar" ELSE ProximaEtapa(indice)
          /\ indice' = IF desfecho = "falha" THEN indice ELSE ProximoIndice(indice)
    /\ despachos' = Append(despachos, Plano[indice])
    /\ propostas' = <<>>
    /\ escolhido' = 0
    /\ UNCHANGED <<sintese, transmitidas, puladas>>
    /\ UNCHANGED <<cacheVars, buscaVars, demaisVars>>

ExecutarERegistrarNaPrimeira ==
    /\ pc = "executar"
    /\ \E desfecho \in Desfechos :
          resultados_finais' =
              DictSet(resultados_finais, Plano[1],
                      ExecutarMissao(escolhido, desfecho))
    /\ despachos' = Append(despachos, Plano[indice])
    /\ pc' = ProximaEtapa(indice)
    /\ indice' = ProximoIndice(indice)
    /\ propostas' = <<>>
    /\ escolhido' = 0
    /\ UNCHANGED <<sintese, transmitidas, puladas>>
    /\ UNCHANGED <<cacheVars, buscaVars, demaisVars>>

ExecutarERegistrar ==
    /\ pc = "executar"
    /\ \E desfecho \in Desfechos :
          resultados_finais' =
              DictSet(resultados_finais, Plano[indice],
                      ExecutarMissao(escolhido, desfecho))
    /\ despachos' = Append(despachos, Plano[indice])
    /\ pc' = ProximaEtapa(indice)
    /\ indice' = ProximoIndice(indice)
    /\ propostas' = <<>>
    /\ escolhido' = 0
    /\ UNCHANGED <<sintese, transmitidas, puladas>>
    /\ UNCHANGED <<cacheVars, buscaVars, demaisVars>>

\* lines 58-61: the final synthesis
Sintetizar ==
    /\ pc = "sintetizar"
    /\ sintese' = TextoSintese(resultados_finais)
    /\ pc' = "sintetizado"
    /\ UNCHANGED <<indice, propostas, escolhido, resultados_finais,
                   transmitidas, despachos, puladas>>
    /\ UNCHANGED <<cacheVars, buscaVars, demaisVars>>

NextManto ==
    \/ ReceberObjetivo
    \/ ColetarPropostas
    \/ SemPropostas
    \/ Selecionar
    \/ ExecutarERegistrar
    \/ Sintetizar

InitManto ==
    /\ pc = "ocioso"
    /\ indice = 1
    /\ propostas = <<>>
    /\ escolhido = 0
    /\ resultados_finais = <<>>
    /\ sintese = <<>>
    /\ transmitidas = <<>>
    /\ despachos = <<>>
    /\ puladas = {}

(***************************************************************************)
(* CacheEstrategia                                                         *)
(***************************************************************************)
ChavesDe(c) == {c[i].chave : i \in 1..Len(c)}

\* chave in self.cache
Contem(c, k) == k \in ChavesDe(c)

\* self.cache[chave]
Entrada(c, k) == c[CHOOSE i \in 1..Len(c) : c[i].chave = k]

\* self.cache.pop(chave): the other entries keep their order
Pop(c, k) == SelectSeq(c, LAMBDA e : e.chave # k)

\* _limpar_cache, step 1: del every entry with agora - timestamp > ttl_segundos
RemoverExpiradosInvertido(c, t) ==
    SelectSeq(c, LAMBDA e : ~(e.timestamp - t > TtlSegundos))

RemoverExpirados(c, t) ==
    SelectSeq(c, LAMBDA e : ~(t - e.timestamp > TtlSegundos))

\* _limpar_cache, step 2: while len(self.cache) > max_size, del the first key
RECURSIVE AplicarLRU(_)
AplicarLRU(c) == IF Len(c) > MaxSize THEN AplicarLRU(Tail(c)) ELSE c

LimparCache(c, t) == AplicarLRU(RemoverExpirados(c, t))

\* get: the store it leaves, with a hit moved to the end
GetCacheSemPromover(c, k, t) == LimparCache(c, t)

GetCacheRenova(c, k, t) ==
    LET limpo == LimparCache(c, t)
    IN  IF Contem(limpo, k)
        THEN Append(Pop(limpo, k), [Entrada(limpo, k) EXCEPT !.timestamp = t])
        ELSE limpo

\* a hit re-inserted at the oldest end of the order
GetCacheParaFrente(c, k, t) ==
    LET limpo == LimparCache(c, t)
    IN  IF Contem(limpo, k)
        THEN <<Entrada(limpo, k)>> \o Pop(limpo, k)
        ELSE limpo

GetCache(c, k, t) ==
    LET limpo == LimparCache(c, t)
    IN  IF Contem(limpo, k)
        THEN Append(Pop(limpo, k), Entrada(limpo, k))
        ELSE limpo

\* get: the value it returns
GetRetorno(c, k, t) ==
    LET limpo == LimparCache(c, t)
    IN  IF Contem(limpo, k) THEN Entrada(limpo, k).dado ELSE Ausente

\* set: t is the clock read by _limpar_cache, ts the one read for 'timestamp'
SetCacheSemPop(c, k, d, t, ts) ==
    Append(LimparCache(c, t), [chave |-> k, dado |-> d, timestamp |-> ts])

SetCache(c, k, d, t, ts) ==
    Append(Pop(LimparCache(c, t), k), [chave |-> k, dado |-> d, timestamp |-> ts])

\* size
SizeCache(c, t) == LimparCache(c, t)
SizeRetorno(c, t) == Len(LimparCache(c, t))

(***************************************************************************)
(* History of the cache: what the last operation did, and an account of    *)
(* the last set and the last touch of every key, kept apart from the store *)
(***************************************************************************)
\* the entries dropped by the LRU pass of _limpar_cache
RemovidasLRU(c, t) ==
    LET vivos == RemoverExpirados(c, t)
        n == Len(vivos) - Len(LimparCache(c, t))
    IN  [i \in 1..n |-> vivos[i]]

\* keys whose last set is no more than ttl_segundos before t
Vivas(t) == {k \in DOMAIN ultimoSet : t - ultimoSet[k].quando <= TtlSegundos}

\* the least recently touched of the keys alive at t, 0 if there is none
MenosRecente(t) ==
    LET r == SelectSeq(recencia, LAMBDA k : k \in Vivas(t))
    IN  IF r = <<>> THEN 0 ELSE r[1]

\* the record of an operation that runs no lazy eviction
RegistroNeutro(tipo) ==
    [tipo |-> tipo, chave |-> 0, retorno |-> Ausente, lru |-> <<>>,
     protegida |-> FALSE, menosRecente |-> 0, esperado |-> Ausente,
     expirou |-> FALSE, expirouLida |-> FALSE, repetida |-> FALSE]

\* the record of a get, set or size at time t, with what the account expects
Registro(tipo, k, d, t, ret) ==
    LET lru == RemovidasLRU(cache, t)
        limpo == LimparCache(cache, t)
    IN  [tipo |-> tipo, chave |-> k, retorno |-> ret,
         lru |-> [i \in 1..Len(lru) |-> lru[i].chave],
         protegida |-> /\ lru # <<>>
                       /\ \E i \in 1..Len(limpo) : limpo[i].timestamp < lru[1].timestamp,
         menosRecente |-> MenosRecente(t),
         esperado |-> IF k \in Vivas(t) THEN ultimoSet[k].dado ELSE Ausente,
         expirou |-> k \in (DOMAIN ultimoSet) \ Vivas(t),
         expirouLida |-> \E x \in (DOMAIN ultimoSet) \ Vivas(t) : ultimoSet[x].lido,
         repetida |-> /\ tipo = "set"
                      /\ ultimaOp.tipo = "set"
                      /\ ultimaOp.chave = k
                      /\ Contem(cache, k)
                      /\ Entrada(cache, k).dado = d]

\* the account once the lazy eviction of an operation at time t has run
ContaLimpa(t) ==
    LET fora == {RemovidasLRU(cache, t)[i].chave : i \in 1..Len(RemovidasLRU(cache, t))}
    IN  [k \in Vivas(t) \ fora |-> ultimoSet[k]]

Tocar(r, k) == Append(SelectSeq(r, LAMBDA x : x # k), k)

(***************************************************************************)
(* The operations of CacheEstrategia                                       *)
(***************************************************************************)
\* time.time() advances between two operations
PassarTempo ==
    /\ agora < MaxTempo
    /\ agora' = agora + 1
    /\ ultimaOp' = RegistroNeutro("tempo")
    /\ UNCHANGED <<cache, recencia, ultimoSet>>
    /\ UNCHANGED <<mantoVars, buscaVars, demaisVars>>

Get(k) ==
    LET ret == GetRetorno(cache, k, agora)
        conta == ContaLimpa(agora)
        r == SelectSeq(recencia, LAMBDA x : x \in DOMAIN conta)
    IN  /\ cache' = GetCache(cache, k, agora)
        /\ ultimaOp' = Registro("get", k, "", agora, ret)
        /\ ultimoSet' = IF ret # Ausente /\ k \in DOMAIN conta
                        THEN [conta EXCEPT ![k].lido = TRUE]
                        ELSE conta
        /\ recencia' = IF ret # Ausente THEN Tocar(r, k) ELSE r
        /\ UNCHANGED agora
        /\ UNCHANGED <<mantoVars, buscaVars, demaisVars>>

\* the two time.time() calls of one set fall in the same tick
Set(k, d) ==
    LET conta == ContaLimpa(agora)
        r == SelectSeq(recencia, LAMBDA x : x \in DOMAIN conta)
    IN  /\ cache' = SetCache(cache, k, d, agora, agora)
        /\ ultimaOp' = Registro("set", k, d, agora, Ausente)
        /\ ultimoSet' = DictSet(conta, k, [quando |-> agora, dado |-> d, lido |-> FALSE])
        /\ recencia' = Tocar(r, k)
        /\ UNCHANGED agora
        /\ UNCHANGED <<mantoVars, buscaVars, demaisVars>>

Size ==
    LET conta == ContaLimpa(agora)
    IN  /\ cache' = SizeCache(cache, agora)
        /\ ultimaOp' = Registro("size", 0, "", agora, SizeRetorno(cache, agora))
        /\ ultimoSet' = conta
        /\ recencia' = SelectSeq(recencia, LAMBDA x : x \in DOMAIN conta)
        /\ UNCHANGED agora
        /\ UNCHANGED <<mantoVars, buscaVars, demaisVars>>

Clear ==
    /\ cache' = <<>>
    /\ ultimaOp' = RegistroNeutro("clear")
    /\ ultimoSet' = <<>>
    /\ recencia' = <<>>
    /\ UNCHANGED agora
    /\ UNCHANGED <<mantoVars, buscaVars, demaisVars>>

NextCache ==
    \/ PassarTempo
    \/ \E k \in Chaves : Get(k)
    \/ \E k \in Chaves, d \in Dados : Set(k, d)
    \/ Size
    \/ Clear

InitCache ==
    /\ cache = <<>>
    /\ agora = 0
    /\ ultimaOp = RegistroNeutro("init")
    /\ recencia = <<>>
    /\ ultimoSet = <<>>

(***************************************************************************)
(* TentaculoBusca, tentaculo_busca.py                                      *)
(***************************************************************************)
\* the coroutines that call executar
Chamadores == {1, 2}

\* the descricao of the mission tokens handed to executar
Descricoes == {"pesquisar", "buscar q1", "pesquisar q1", "procurar q2"}

\* _extrair_query: lower-case, remove the PALAVRAS_REMOVER, strip
ExtrairQuery(d) ==
    CASE d = "pesquisar"    -> ""
      [] d = "buscar q1"    -> "q1"
      [] d = "pesquisar q1" -> "q1"
      [] d = "procurar q2"  -> "q2"

\* _gerar_hash_query: SHA256 of the query, taken as injective
GerarHashQuery(q) == <<"sha256", q>>

\* the None in the place of a list of results
SemResultado == [query |-> "", busca |-> 0, malformado |-> FALSE]

\* what the search engine answers to query q in the n-th executar call;
\* a malformed answer is a list whose items are not dictionaries
Resultado(q, n, m) == [query |-> q, busca |-> n, malformado |-> m]

\* _formatar_resultados raises on items without .get
FormatoLevanta(res) == res.malformado

\* _formatar_resultados
FormatarResultados(res) ==
    [cabecalho |-> IF res = SemResultado THEN "Nenhum resultado encontrado"
                   ELSE "resultado(s) encontrado(s)",
     itens |-> res]

\* is there an entry under hash h
ContemBusca(cb, h) == \E i \in 1..Len(cb) : cb[i].chave = h

EntradaBusca(cb, h) == cb[CHOOSE i \in 1..Len(cb) : cb[i].chave = h]

\* _verificar_cache: the stored text if younger than the expiry, otherwise
\* None, and an expired entry is deleted
VerificarCacheSempreAusente(cb, q, t) ==
    [hit |-> FALSE, valor |-> FormatarResultados(SemResultado), cache |-> cb]

VerificarCache(cb, q, t) ==
    LET h == GerarHashQuery(q)
    IN  IF ~ContemBusca(cb, h)
        THEN [hit |-> FALSE, valor |-> FormatarResultados(SemResultado), cache |-> cb]
        ELSE LET entrada == EntradaBusca(cb, h)
             IN  IF t - entrada.timestamp < ExpiracaoCache
                 THEN [hit |-> TRUE, valor |-> entrada.resultado_formatado, cache |-> cb]
                 ELSE [hit |-> FALSE, valor |-> FormatarResultados(SemResultado),
                       cache |-> SelectSeq(cb, LAMBDA e : e.chave # h)]

\* min(items, key=timestamp): the first entry with the smallest timestamp
MaisAntiga(cb) ==
    CHOOSE i \in 1..Len(cb) :
        /\ \A j \in 1..Len(cb) : cb[i].timestamp <= cb[j].timestamp
        /\ \A j \in 1..(i - 1) : cb[j].timestamp > cb[i].timestamp

\* _adicionar_cache: a full store loses its oldest entry, then the entry is
\* assigned (an existing key keeps its place in the dict)
AdicionarCacheSemDespejo(cb, q, r, t) ==
    LET h == GerarHashQuery(q)
        nova == [chave |-> h, resultado_formatado |-> r, timestamp |-> t]
    IN  IF ContemBusca(cb, h)
        THEN [i \in 1..Len(cb) |-> IF cb[i].chave = h THEN nova ELSE cb[i]]
        ELSE Append(cb, nova)

AdicionarCacheAcimaDoLimite(cb, q, r, t) ==
    LET h == GerarHashQuery(q)
        nova == [chave |-> h, resultado_formatado |-> r, timestamp |-> t]
        base == IF Len(cb) > TamanhoMaxCache
                THEN LET m == MaisAntiga(cb)
                     IN  [i \in 1..(Len(cb) - 1) |-> IF i < m THEN cb[i] ELSE cb[i + 1]]
                ELSE cb
    IN  IF ContemBusca(base, h)
        THEN [i \in 1..Len(base) |-> IF base[i].chave = h THEN nova ELSE base[i]]
        ELSE Append(base, nova)

AdicionarCache(cb, q, r, t) ==
    LET h == GerarHashQuery(q)
        nova == [chave |-> h, resultado_formatado |-> r, timestamp |-> t]
        base == IF Len(cb) >= TamanhoMaxCache
                THEN LET m == MaisAntiga(cb)
                     IN  [i \in 1..(Len(cb) - 1) |-> IF i < m THEN cb[i] ELSE cb[i + 1]]
                ELSE cb
    IN  IF ContemBusca(base, h)
        THEN [i \in 1..Len(base) |-> IF base[i].chave = h THEN nova ELSE base[i]]
        ELSE Append(base, nova)

RECURSIVE Pot2(_)
Pot2(n) == IF n = 0 THEN 1 ELSE 2 * Pot2(n - 1)

\* tempo_espera, line 215
EsperaBackoffProduto(tentativa) == BACKOFF_BASE_SEGUNDOS * (2 * tentativa)

EsperaBackoff(tentativa) == BACKOFF_BASE_SEGUNDOS * Pot2(tentativa)

\* line 214
DeveEsperar(tentativa) == tentativa < MAX_RETRIES - 1

\* range(MAX_RETRIES) has no further value after tentativa
UltimaTentativaMaisUma(tentativa) == tentativa + 1 >= MAX_RETRIES + 1

UltimaTentativa(tentativa) == tentativa + 1 >= MAX_RETRIES

\* the return inside the try, line 207
EncerraNoSucessoNunca(desfecho) == FALSE

EncerraNoSucesso(desfecho) == desfecho = "ok"

\* wait_for ends the wait at the timeout whatever the executor thread does
PrazoVenceSeResponde(travada) == ~travada

PrazoVence(travada) == TRUE

\* the time one attempt takes, in ms, as measured by lines 190 and 205
Duracao(desfecho) ==
    CASE desfecho = "ok"      -> 2
      [] desfecho = "erro"    -> 1
      [] desfecho = "timeout" -> TIMEOUT_CONSULTA_SEGUNDOS * 1000
      [] desfecho = "travada" -> TIMEOUT_CONSULTA_SEGUNDOS * 1000

\* the tuple returned at line 207
RetornoSucesso(res) == [resultados |-> res, sucesso |-> TRUE, latencia |-> Duracao("ok")]

\* the tuple returned at line 219
RetornoFalha ==
    [resultados |-> SemResultado, sucesso |-> FALSE,
     latencia |-> TIMEOUT_CONSULTA_SEGUNDOS * 1000]

\* lines 162-168
AtualizarMetricasSoSucesso(m, r) ==
    [total_consultas   |-> m.total_consultas + (IF r.sucesso THEN 1 ELSE 0),
     tempo_total_ms    |-> m.tempo_total_ms + r.latencia,
     consultas_sucesso |-> m.consultas_sucesso + (IF r.sucesso THEN 1 ELSE 0),
     consultas_falha   |-> m.consultas_falha + (IF r.sucesso THEN 0 ELSE 1)]

AtualizarMetricas(m, r) ==
    [total_consultas   |-> m.total_consultas + 1,
     tempo_total_ms    |-> m.tempo_total_ms + r.latencia,
     consultas_sucesso |-> m.consultas_sucesso + (IF r.sucesso THEN 1 ELSE 0),
     consultas_falha   |-> m.consultas_falha + (IF r.sucesso THEN 0 ELSE 1)]

\* lines 170-175: only a formatted success is stored
CacheAposBuscaSempre(cb, q, r, t) ==
    IF FormatoLevanta(r.resultados) THEN cb
    ELSE AdicionarCache(cb, q, FormatarResultados(r.resultados), t)

CacheAposBusca(cb, q, r, t) ==
    IF ~r.sucesso \/ FormatoLevanta(r.resultados) THEN cb
    ELSE AdicionarCache(cb, q, FormatarResultados(r.resultados), t)

\* what executar hands to its caller
Retorno(tipo, valor, latencia) == [tipo |-> tipo, valor |-> valor, latencia |-> latencia]

SemRetorno == Retorno("nenhum", FormatarResultados(SemResultado), 0)

\* except Exception, lines 179-181: the exception becomes a returned text
CapturarPropaga(latencia) == Retorno("excecao", FormatarResultados(SemResultado), latencia)

Capturar(latencia) == Retorno("erro_interno", FormatarResultados(SemResultado), latencia)

\* lines 170-177: the value returned after the retry loop
RetornoAposBusca(r) ==
    IF ~r.sucesso THEN Retorno("falha", FormatarResultados(SemResultado), r.latencia)
    ELSE IF FormatoLevanta(r.resultados) THEN Capturar(r.latencia)
    ELSE Retorno("resultado", FormatarResultados(r.resultados), r.latencia)

\* a caller that is not inside executar
ChamadaLivre ==
    [pc |-> "livre", consulta |-> "", tentativa |-> 0, travada |-> FALSE,
     historico |-> <<>>, esperas |-> <<>>, retorno |-> SemRetorno,
     ordem |-> 0, inicioEm |-> 0, fimEm |-> 0]

\* what is kept of a call once its coroutine is gone
Resumo(ch) ==
    [ordem |-> ch.ordem, consulta |-> ch.consulta, tipo |-> ch.retorno.tipo,
     tentativas |-> Len(ch.historico), fimEm |-> ch.fimEm]

\* the frames of the returned calls are dropped when caller c calls again
Liberar(c, nova) ==
    [x \in Chamadores |->
        IF x = c THEN nova
        ELSE IF chamada[x].pc = "retornou" THEN ChamadaLivre ELSE chamada[x]]

\* the call that returned last
UltimaRetornada ==
    LET feitas == {x \in Chamadores : chamada[x].pc = "retornou"}
    IN  IF feitas = {} THEN anterior
        ELSE Resumo(chamada[CHOOSE x \in feitas :
                              \A y \in feitas : chamada[y].ordem <= chamada[x].ordem])

Ocioso == \A c \in Chamadores : chamada[c].pc \in {"livre", "retornou"}

\* lines 161-184: metrics, cache, the returned value, and the finally
Concluir(c, ch, r) ==
    /\ metricas' = AtualizarMetricas(metricas, r)
    /\ cache_buscas' = CacheAposBusca(cache_buscas, ch.consulta, r, relogio)
    /\ status' = "ATIVO"
    /\ chamada' = [chamada EXCEPT ![c] =
                     [ch EXCEPT !.pc = "retornou", !.travada = FALSE,
                                !.retorno = RetornoAposBusca(r), !.fimEm = relogio]]
    /\ UNCHANGED <<relogio, iniciadas, anterior>>

\* the for loop goes to its next value or ends, lines 188 and 219
Seguir(c, ch) ==
    IF UltimaTentativa(ch.tentativa)
    THEN Concluir(c, ch, RetornoFalha)
    ELSE /\ \E tr \in BOOLEAN :
               chamada' = [chamada EXCEPT ![c] =
                             [ch EXCEPT !.pc = "buscando", !.travada = tr,
                                        !.tentativa = ch.tentativa + 1]]
         /\ UNCHANGED <<status, cache_buscas, metricas, relogio, iniciadas, anterior>>

\* one attempt is over, lines 205-217
FimTentativa(c, desfecho, res) ==
    LET ch == [chamada[c] EXCEPT !.historico = Append(@, desfecho), !.travada = FALSE]
    IN  IF desfecho = "ok" /\ EncerraNoSucesso(desfecho)
        THEN Concluir(c, ch, RetornoSucesso(res))
        ELSE IF DeveEsperar(ch.tentativa)
             THEN /\ chamada' = [chamada EXCEPT ![c] =
                                   [ch EXCEPT !.pc = "esperando",
                                              !.esperas = Append(@, EsperaBackoff(ch.tentativa))]]
                  /\ UNCHANGED <<status, cache_buscas, metricas, relogio, iniciadas, anterior>>
             ELSE Seguir(c, ch)

\* executar up to its first suspension, lines 143-159 and 188-204
Iniciar(c, d) ==
    /\ chamada[c].pc \in {"livre", "retornou"}
    /\ iniciadas < MaxChamadas
    /\ iniciadas' = iniciadas + 1
    /\ anterior' = UltimaRetornada
    /\ LET q == ExtrairQuery(d)
           v == VerificarCache(cache_buscas, q, relogio)
           ch == [ChamadaLivre EXCEPT !.consulta = q, !.ordem = iniciadas + 1,
                                      !.inicioEm = relogio, !.fimEm = relogio]
       IN  IF q = ""
           THEN /\ status' = "OCUPADO"
                /\ chamada' = Liberar(c,
                      [ch EXCEPT !.pc = "retornou",
                                 !.retorno = Retorno("sem_termo", FormatarResultados(SemResultado), 0)])
                /\ UNCHANGED cache_buscas
           ELSE IF v.hit
                THEN /\ status' = "ATIVO"
                     /\ chamada' = Liberar(c,
                           [ch EXCEPT !.pc = "retornou",
                                      !.retorno = Retorno("cache", v.valor, 0)])
                     /\ cache_buscas' = v.cache
                ELSE /\ status' = "OCUPADO"
                     /\ \E tr \in BOOLEAN :
                           chamada' = Liberar(c, [ch EXCEPT !.pc = "buscando", !.travada = tr])
                     /\ cache_buscas' = v.cache
    /\ UNCHANGED <<metricas, relogio>>
    /\ UNCHANGED <<mantoVars, cacheVars, demaisVars>>

\* the executor thread hands back the list of results, or raises
Responder(c, desfecho, m) ==
    /\ chamada[c].pc = "buscando"
    /\ ~chamada[c].travada
    /\ desfecho = "erro" => ~m
    /\ FimTentativa(c, desfecho,
                    IF desfecho = "ok"
                    THEN Resultado(chamada[c].consulta, chamada[c].ordem, m)
                    ELSE SemResultado)
    /\ UNCHANGED <<mantoVars, cacheVars, demaisVars>>

\* asyncio.TimeoutError out of wait_for, line 209
EsgotarTempo(c) ==
    /\ chamada[c].pc = "buscando"
    /\ PrazoVence(chamada[c].travada)
    /\ FimTentativa(c, IF chamada[c].travada THEN "travada" ELSE "timeout", SemResultado)
    /\ UNCHANGED <<mantoVars, cacheVars, demaisVars>>

\* asyncio.sleep returns, line 217
Acordar(c) ==
    /\ chamada[c].pc = "esperando"
    /\ Seguir(c, chamada[c])
    /\ UNCHANGED <<mantoVars, cacheVars, demaisVars>>

\* the wall clock moves between two steps
PassarTempoBusca ==
    /\ relogio < MaxRelogio
    /\ relogio' = relogio + 1
    /\ UNCHANGED <<status, cache_buscas, metricas, iniciadas, chamada, anterior>>
    /\ UNCHANGED <<mantoVars, cacheVars, demaisVars>>

\* the steps that the event loop takes on its own
Andamento(c) ==
    \/ \E desfecho \in {"ok", "erro"}, m \in BOOLEAN : Responder(c, desfecho, m)
    \/ EsgotarTempo(c)
    \/ Acordar(c)

\* executar is called again only after the previous call has returned
NextBusca ==
    \/ \E c \in Chamadores, d \in Descricoes : Ocioso /\ Iniciar(c, d)
    \/ \E c \in Chamadores, desfecho \in {"ok", "erro"}, m \in BOOLEAN : Responder(c, desfecho, m)
    \/ \E c \in Chamadores : EsgotarTempo(c)
    \/ \E c \in Chamadores : Acordar(c)
    \/ PassarTempoBusca

\* executar is called while other executar calls of the same instance are
\* suspended in their search or in their backoff sleep: the event loop runs
\* one coroutine from one suspension to the next, and the bodies under
\* _lock_cache, _lock_metricas and _lock_status hold no await
NextBuscaConcorrente ==
    \/ \E c \in Chamadores, d \in Descricoes : Iniciar(c, d)
    \/ NextBusca

\* __init__, lines 63-77: no status is assigned before the first executar
InitBusca ==
    /\ status = "NAO_DEFINIDO"
    /\ cache_buscas = <<>>
    /\ metricas = [total_consultas |-> 0, consultas_sucesso |-> 0,
                   consultas_falha |-> 0, tempo_total_ms |-> 0]
    /\ relogio = 0
    /\ iniciadas = 0
    /\ chamada = [c \in Chamadores |-> ChamadaLivre]
    /\ anterior = Resumo(ChamadaLivre)

(***************************************************************************)
(* BarramentoEventos (shared/comunicacao.py) and ConscienciaCentral        *)
(* (manto/consciencia_central.py)                                          *)
(***************************************************************************)
\* the event types published by processar_missao
TiposEvento == {"EVENTO_RACIOCINIO", "FALHA_CRITICA"}

\* what can be handed to assinar: a coroutine function that returns, one
\* that raises, a queue with room, a bounded queue that is full
TiposAssinante == {"corrotina", "corrotina_levanta", "fila", "fila_cheia"}

\* the lines of the text returned by cerebro.gerar_pensamento: a blank
\* line, a step for the search specialist, a step for the code specialist
LinhasPlano == {" ", "pesquise", "implemente"}

\* plano_tatico.split('\n') has at least one element
PlanosTaticos ==
    UNION {[1..n -> LinhasPlano] : n \in 1..MaxPassos}

\* the keys of self.tentaculos handed to the constructor
Especialistas == {"Busca", "Estrategista"}

\* _rotear_tarefa, lines 51-60
RotearTarefa(passo) ==
    CASE passo = "pesquise"   -> "Busca"
      [] passo = "implemente" -> "Codigo"
      [] OTHER                -> "Estrategista"

\* not passo.strip(), line 29
EmBranco(passo) == passo = " "

\* the index of the first step from i on that line 29 does not skip, or 0
ProximoPasso(plano, i) ==
    LET S == {j \in i..Len(plano) : ~EmBranco(plano[j])}
    IN  IF S = {} THEN 0 ELSE CHOOSE j \in S : \A k \in S : j <= k

\* the positions of processar_missao inside a publicar
EmPublicacao ==
    cpc \in {"pub_inicio", "pub_plano", "pub_passo", "pub_concluido", "pub_falha"}

\* a callback as it stands in the list of the type it was registered for
Assinatura(tipo, assinante) == [tipo |-> tipo, classe |-> assinante]

\* the list that publicar iterates, lines 24-25
ListaDoTipo(tipo) == assinantes[tipo]

\* assinar, lines 18-21; the for loop of a publicar in progress on the same
\* list reaches a callback appended meanwhile
Assinar(tipo, assinante) ==
    /\ Len(assinantes["EVENTO_RACIOCINIO"]) + Len(assinantes["FALHA_CRITICA"]) < MaxAssinantes
    /\ assinantes' = [assinantes EXCEPT ![tipo] = Append(@, Assinatura(tipo, assinante))]
    /\ restantes' = IF restantes # <<>> /\ eventos[Len(eventos)] = tipo
                    THEN Append(restantes, Assinatura(tipo, assinante))
                    ELSE restantes
    /\ UNCHANGED <<cpc, plano_tatico, passo_i, eventos, delegacoes, entregas>>
    /\ UNCHANGED <<mantoVars, cacheVars, buscaVars, redeVars, propVars, estVars>>

\* publicar up to its first await, lines 23-25: the callbacks of the type
Publicar(tipo, fase) ==
    /\ cpc' = fase
    /\ eventos' = Append(eventos, tipo)
    /\ restantes' = ListaDoTipo(tipo)
    /\ entregas' = <<>>

\* await callback(evento), line 27, or await callback.put(evento), line 30,
\* comes back: the loop of publicar goes to the next callback
Entregar ==
    /\ EmPublicacao
    /\ restantes # <<>>
    /\ Head(restantes).classe \in {"corrotina", "fila"}
    /\ restantes' = Tail(restantes)
    /\ entregas' = Append(entregas, Head(restantes))
    /\ UNCHANGED <<cpc, plano_tatico, passo_i, eventos, assinantes, delegacoes>>
    /\ UNCHANGED <<mantoVars, cacheVars, buscaVars, redeVars, propVars, estVars>>

\* the awaited callback raises: nothing in publicar or processar_missao
\* catches it
AssinanteLevanta ==
    /\ EmPublicacao
    /\ restantes # <<>>
    /\ Head(restantes).classe = "corrotina_levanta"
    /\ cpc' = "levantou_assinante"
    /\ restantes' = <<>>
    /\ entregas' = Append(entregas, Head(restantes))
    /\ UNCHANGED <<plano_tatico, passo_i, eventos, assinantes, delegacoes>>
    /\ UNCHANGED <<mantoVars, cacheVars, buscaVars, redeVars, propVars, estVars>>

\* a consumer takes an item off the full queue, so the pending put is done
ConsumirFila ==
    /\ EmPublicacao
    /\ restantes # <<>>
    /\ Head(restantes).classe = "fila_cheia"
    /\ restantes' = Tail(restantes)
    /\ entregas' = Append(entregas, Head(restantes))
    /\ UNCHANGED <<cpc, plano_tatico, passo_i, eventos, assinantes, delegacoes>>
    /\ UNCHANGED <<mantoVars, cacheVars, buscaVars, redeVars, propVars, estVars>>

\* processar_missao is called, line 21
ReceberMissao ==
    /\ cpc \in {"ocioso", "retornou", "levantou_assinante", "levantou_especialista"}
    /\ cpc' = "pub_inicio"
    /\ eventos' = <<"EVENTO_RACIOCINIO">>
    /\ restantes' = ListaDoTipo("EVENTO_RACIOCINIO")
    /\ entregas' = <<>>
    /\ plano_tatico' = <<>>
    /\ passo_i' = 0
    /\ delegacoes' = 0
    /\ UNCHANGED assinantes
    /\ UNCHANGED <<mantoVars, cacheVars, buscaVars, redeVars, propVars, estVars>>

\* lines 24-25: the plan comes from the Cerebro and is announced
GerarPlanoTatico ==
    /\ cpc = "pub_inicio"
    /\ restantes = <<>>
    /\ \E plano \in PlanosTaticos : plano_tatico' = plano
    /\ Publicar("EVENTO_RACIOCINIO", "pub_plano")
    /\ UNCHANGED <<passo_i, assinantes, delegacoes>>
    /\ UNCHANGED <<mantoVars, cacheVars, buscaVars, redeVars, propVars, estVars>>

\* lines 28-32: the loop takes its next step that is not blank, or ends
Avancar(i) ==
    LET j == ProximoPasso(plano_tatico, i)
    IN  IF j = 0
        THEN /\ cpc' = "retornou"
             /\ UNCHANGED <<passo_i, eventos, restantes, entregas>>
        ELSE /\ passo_i' = j
             /\ Publicar("EVENTO_RACIOCINIO", "pub_passo")

EntrarNoLaco ==
    /\ cpc = "pub_plano"
    /\ restantes = <<>>
    /\ Avancar(1)
    /\ UNCHANGED <<plano_tatico, assinantes, delegacoes>>
    /\ UNCHANGED <<mantoVars, cacheVars, buscaVars, redeVars, propVars, estVars>>

\* lines 36-41: the step is routed to a specialist that exists, which runs it
Delegar ==
    /\ cpc = "pub_passo"
    /\ restantes = <<>>
    /\ RotearTarefa(plano_tatico[passo_i]) \in Especialistas
    /\ delegacoes' = delegacoes + 1
    /\ \/ Publicar("EVENTO_RACIOCINIO", "pub_concluido")
       \/ /\ cpc' = "levantou_especialista"
          /\ UNCHANGED <<eventos, restantes, entregas>>
    /\ UNCHANGED <<plano_tatico, passo_i, assinantes>>
    /\ UNCHANGED <<mantoVars, cacheVars, buscaVars, redeVars, propVars, estVars>>

\* lines 42-43: no specialist under the routed name
PublicarFalhaCritica ==
    /\ cpc = "pub_passo"
    /\ restantes = <<>>
    /\ RotearTarefa(plano_tatico[passo_i]) \notin Especialistas
    /\ Publicar("FALHA_CRITICA", "pub_falha")
    /\ UNCHANGED <<plano_tatico, passo_i, assinantes, delegacoes>>
    /\ UNCHANGED <<mantoVars, cacheVars, buscaVars, redeVars, propVars, estVars>>

\* after line 41 the loop goes on
Continuar ==
    /\ cpc = "pub_concluido"
    /\ restantes = <<>>
    /\ Avancar(passo_i + 1)
    /\ UNCHANGED <<plano_tatico, assinantes, delegacoes>>
    /\ UNCHANGED <<mantoVars, cacheVars, buscaVars, redeVars, propVars, estVars>>

\* the break of line 44
InterromperSegue ==
    /\ cpc = "pub_falha"
    /\ restantes = <<>>
    /\ Avancar(passo_i + 1)
    /\ UNCHANGED <<plano_tatico, assinantes, delegacoes>>
    /\ UNCHANGED <<mantoVars, cacheVars, buscaVars, redeVars, propVars, estVars>>

Interromper ==
    /\ cpc = "pub_falha"
    /\ restantes = <<>>
    /\ cpc' = "retornou"
    /\ UNCHANGED <<plano_tatico, passo_i, restantes, eventos, assinantes, delegacoes, entregas>>
    /\ UNCHANGED <<mantoVars, cacheVars, buscaVars, redeVars, propVars, estVars>>

NextConsciencia ==
    \/ \E tipo \in TiposEvento, assinante \in TiposAssinante : Assinar(tipo, assinante)
    \/ ReceberMissao
    \/ Entregar
    \/ AssinanteLevanta
    \/ ConsumirFila
    \/ GerarPlanoTatico
    \/ EntrarNoLaco
    \/ Delegar
    \/ PublicarFalhaCritica
    \/ Continuar
    \/ Interromper

\* BarramentoEventos.__init__ and ConscienciaCentral.__init__
InitConsciencia ==
    /\ cpc = "ocioso"
    /\ plano_tatico = <<>>
    /\ passo_i = 0
    /\ restantes = <<>>
    /\ eventos = <<>>
    /\ assinantes = [t \in TiposEvento |-> <<>>]
    /\ entregas = <<>>
    /\ delegacoes = 0

(***************************************************************************)
(* TentaculoEstrategista.executar_plano (tentaculos/tentaculo_estrategista *)
(* .py) over the Passo of tentaculos/estrategista/modelos.py.  The name    *)
(* time of lines 98 and 129 is taken as the standard module.               *)
(***************************************************************************)
\* Passo.id; the id 3 is the one that the simulation lets fail
IdsPasso == {1, 2, 3}

\* Passo.tentaculo_responsavel
Responsaveis == {"Babel", "Logos"}

\* Passo.dependencias: no dependency, or one
DependenciasPossiveis == {{}} \cup {{d} : d \in IdsPasso}

\* a Passo as its constructor leaves it: status PENDENTE
PassosPossiveis ==
    [id : IdsPasso, tentaculo_responsavel : Responsaveis,
     dependencias : DependenciasPossiveis, status : {"pendente"}]

\* PlanoDeAcao.passos
PlanosDeAcao == UNION {[1..n -> PassosPossiveis] : n \in 0..MaxPassosPlano}

\* lines 110-125: the simulated outcome of a step
StatusFinal(passo) ==
    IF passo.tentaculo_responsavel = "Logos" /\ passo.id = 3
    THEN "falhou" ELSE "concluido"

\* line 134
SucessoPlano(ps) == \A i \in 1..Len(ps) : ps[i].status = "concluido"

\* lines 129-148: the metrics of the plan and the returned result
Finalizar(ps) ==
    /\ epc' = "retornou"
    /\ passo_e' = 0
    /\ metricasEst' = [metricasEst EXCEPT
                         !.planos_executados = @ + 1,
                         !.planos_sucesso = @ + (IF SucessoPlano(ps) THEN 1 ELSE 0)]
    /\ resultadoEst' = [sucesso |-> SucessoPlano(ps), executou |-> TRUE]

\* line 103 for the step at index i, up to the sleep of line 107
ComecarPasso(ps, i) == [ps EXCEPT ![i].status = "em_execucao"]

\* liga_desliga, lines 29-32
LigaDesliga(estado) ==
    /\ epc \in {"ocioso", "planejado", "retornou"}
    /\ habilitado # estado
    /\ habilitado' = estado
    /\ UNCHANGED <<epc, passos, passo_e, metricasEst, resultadoEst, planVars>>
    /\ UNCHANGED <<mantoVars, cacheVars, buscaVars, redeVars, propVars, consVars>>

\* executar_plano, lines 94-107.  The caller holds one PlanoDeAcao: the
\* first call hands it over, a later call hands over the same object
ChamarExecutarPlano ==
    /\ epc \in {"ocioso", "planejado", "retornou"}
    /\ metricasEst.planos_executados < MaxPlanos
    /\ \E plano \in (IF epc = "ocioso" THEN PlanosDeAcao ELSE {passos}) :
          IF ~habilitado
          THEN /\ passos' = plano
               /\ epc' = "retornou"
               /\ resultadoEst' = [sucesso |-> FALSE, executou |-> FALSE]
               /\ UNCHANGED <<passo_e, metricasEst>>
          ELSE IF plano = <<>>
               THEN /\ passos' = plano
                    /\ Finalizar(plano)
               ELSE /\ passos' = ComecarPasso(plano, 1)
                    /\ epc' = "executando"
                    /\ passo_e' = 1
                    /\ resultadoEst' = [sucesso |-> FALSE, executou |-> FALSE]
                    /\ UNCHANGED metricasEst
    /\ UNCHANGED <<habilitado, planVars>>
    /\ UNCHANGED <<mantoVars, cacheVars, buscaVars, redeVars, propVars, consVars>>

\* the sleep of line 107 is over: lines 109-127, then the next iteration up
\* to its sleep, or the end of the loop
TerminarPassoSegue ==
    /\ epc = "executando"
    /\ LET final == StatusFinal(passos[passo_e])
           ps == [passos EXCEPT ![passo_e].status = final]
           contado == [metricasEst EXCEPT
                         !.passos_concluidos = @ + (IF final = "concluido" THEN 1 ELSE 0),
                         !.passos_falhados = @ + (IF final = "falhou" THEN 1 ELSE 0)]
       IN  IF passo_e = Len(passos)
           THEN /\ passos' = ps
                /\ epc' = "retornou"
                /\ passo_e' = 0
                /\ metricasEst' = [contado EXCEPT
                                     !.planos_executados = @ + 1,
                                     !.planos_sucesso = @ + (IF SucessoPlano(ps) THEN 1 ELSE 0)]
                /\ resultadoEst' = [sucesso |-> SucessoPlano(ps), executou |-> TRUE]
           ELSE /\ passos' = ComecarPasso(ps, passo_e + 1)
                /\ passo_e' = passo_e + 1
                /\ metricasEst' = contado
                /\ UNCHANGED <<epc, resultadoEst>>
    /\ UNCHANGED <<habilitado, planVars>>
    /\ UNCHANGED <<mantoVars, cacheVars, buscaVars, redeVars, propVars, consVars>>

TerminarPasso ==
    /\ epc = "executando"
    /\ LET final == StatusFinal(passos[passo_e])
           ps == [passos EXCEPT ![passo_e].status = final]
           contado == [metricasEst EXCEPT
                         !.passos_concluidos = @ + (IF final = "concluido" THEN 1 ELSE 0),
                         !.passos_falhados = @ + (IF final = "falhou" THEN 1 ELSE 0)]
       IN  IF final = "falhou" \/ passo_e = Len(passos)
           THEN /\ passos' = ps
                /\ epc' = "retornou"
                /\ passo_e' = 0
                /\ metricasEst' = [contado EXCEPT
                                     !.planos_executados = @ + 1,
                                     !.planos_sucesso = @ + (IF SucessoPlano(ps) THEN 1 ELSE 0)]
                /\ resultadoEst' = [sucesso |-> SucessoPlano(ps), executou |-> TRUE]
           ELSE /\ passos' = ComecarPasso(ps, passo_e + 1)
                /\ passo_e' = passo_e + 1
                /\ metricasEst' = contado
                /\ UNCHANGED <<epc, resultadoEst>>
    /\ UNCHANGED <<habilitado, planVars>>
    /\ UNCHANGED <<mantoVars, cacheVars, buscaVars, redeVars, propVars, consVars>>

\* passos_sugeridos, lines 65-70
PlanoSugerido ==
    <<[id |-> 1, tentaculo_responsavel |-> "Perceptivo", dependencias |-> {},
       status |-> "pendente"],
      [id |-> 2, tentaculo_responsavel |-> "Babel", dependencias |-> {1},
       status |-> "pendente"],
      [id |-> 3, tentaculo_responsavel |-> "Logos", dependencias |-> {2},
       status |-> "pendente"],
      [id |-> 4, tentaculo_responsavel |-> "Estrategista", dependencias |-> {3},
       status |-> "pendente"]>>

\* nothing returned by planejar_acao yet
SemPlano == [tipo |-> "nenhum", passos |-> <<>>]

\* the plan handed back on a cache hit, lines 43-46: the stored object
PlanoDoCache(ps) == ps

\* planejar_acao for one objective, context and framework, lines 38-88;
\* the caller keeps the returned plan as its plan
PlanejarAcao ==
    /\ epc \in {"ocioso", "planejado", "retornou"}
    /\ IF ~habilitado
       THEN /\ retornoPlano' = [tipo |-> "None", passos |-> <<>>]
            /\ UNCHANGED <<epc, passos, metricasEst, plano_em_cache>>
       ELSE IF plano_em_cache
            THEN /\ passos' = PlanoDoCache(passos)
                 /\ retornoPlano' = [tipo |-> "cache", passos |-> passos']
                 /\ epc' = "planejado"
                 /\ UNCHANGED <<metricasEst, plano_em_cache>>
            ELSE /\ metricasEst.planos_gerados < MaxPlanos
                 /\ passos' = PlanoSugerido
                 /\ retornoPlano' = [tipo |-> "novo", passos |-> PlanoSugerido]
                 /\ epc' = "planejado"
                 /\ metricasEst' = [metricasEst EXCEPT !.planos_gerados = @ + 1]
                 /\ plano_em_cache' = TRUE
    /\ UNCHANGED <<habilitado, passo_e, resultadoEst>>
    /\ UNCHANGED <<mantoVars, cacheVars, buscaVars, redeVars, propVars, consVars>>

\* ttl_segundos pass after the set of line 85: the next get of
\* CacheEstrategia drops the entry (cache.py lines 22-33)
ExpirarPlanoEmCache ==
    /\ plano_em_cache
    /\ plano_em_cache' = FALSE
    /\ UNCHANGED <<epc, habilitado, passos, passo_e, metricasEst, resultadoEst, retornoPlano>>
    /\ UNCHANGED <<mantoVars, cacheVars, buscaVars, redeVars, propVars, consVars>>

NextEstrategista ==
    \/ \E estado \in BOOLEAN : LigaDesliga(estado)
    \/ PlanejarAcao
    \/ ExpirarPlanoEmCache
    \/ ChamarExecutarPlano
    \/ TerminarPasso

\* TentaculoEstrategista.__init__, lines 21-27
InitEstrategista ==
    /\ epc = "ocioso"
    /\ habilitado = TRUE
    /\ passos = <<>>
    /\ passo_e = 0
    /\ metricasEst = [planos_gerados |-> 0, planos_executados |-> 0,
                      planos_sucesso |-> 0,
                      passos_concluidos |-> 0, passos_falhados |-> 0]
    /\ resultadoEst = [sucesso |-> FALSE, executou |-> FALSE]
    /\ plano_em_cache = FALSE
    /\ retornoPlano = SemPlano


(***************************************************************************)
(* gerar_proposta of BaseTentaculo (tentaculos/base_tentaculo.py) and of   *)
(* TentaculoBusca (tentaculos/tentaculo_busca.py).  A confianca is held in *)
(* hundredths.                                                             *)
(***************************************************************************)
\* the descricao of the tokens offered for a bid; the last holds none of the
\* PALAVRAS_CHAVE
DescricoesProposta == Descricoes \cup {"compilar"}

\* line 123: any(palavra in descricao for palavra in PALAVRAS_CHAVE)
TemPalavraChave(d) == d \in Descricoes

\* random.uniform(-0.1, 0.09), base_tentaculo.py line 39: the two ends and
\* the middle
Desvios == {-10, 0, 9}

\* MetricasBusca.taxa_sucesso, lines 41-46, as numerator and denominator
TaxaSucesso(m) ==
    IF m.total_consultas > 0
    THEN <<m.consultas_sucesso, m.total_consultas>>
    ELSE <<0, 1>>

\* round(x, 2) of x = num / den hundredths, to the nearest hundredth
Centesimos(num, den) == (2 * num + den) \div (2 * den)

\* lines 130-136: round(0.8 + taxa_sucesso * 0.15, 2)
ConfiancaBuscaSemPeso(m) ==
    LET t == TaxaSucesso(m) IN Centesimos(80 * t[2] + 100 * t[1], t[2])

ConfiancaBusca(m) ==
    LET t == TaxaSucesso(m) IN Centesimos(80 * t[2] + 15 * t[1], t[2])

\* base_tentaculo.py lines 34-39: confianca_base + random.uniform(-0.1, 0.09)
ConfiancaBase(desvio) == 90 + desvio

SemProposta == [n |-> 0, origem |-> "nenhuma", ausente |-> TRUE, confianca |-> 0]

\* TentaculoBusca.gerar_proposta, lines 120-139
GerarPropostaBuscaConta(d) ==
    /\ proposta.n < MaxPropostas
    /\ proposta' = [n |-> proposta.n + 1, origem |-> "busca",
                    ausente |-> FALSE, confianca |-> ConfiancaBusca(metricas)]
    /\ metricas' = [metricas EXCEPT !.total_consultas = @ + 1]
    /\ UNCHANGED <<status, cache_buscas, relogio, iniciadas, chamada, anterior>>
    /\ UNCHANGED <<mantoVars, cacheVars, redeVars, consVars, estVars>>

GerarPropostaBusca(d) ==
    /\ proposta.n < MaxPropostas
    /\ proposta' =
          IF ~TemPalavraChave(d) \/ ExtrairQuery(d) = ""
          THEN [n |-> proposta.n + 1, origem |-> "busca",
                ausente |-> TRUE, confianca |-> 0]
          ELSE [n |-> proposta.n + 1, origem |-> "busca",
                ausente |-> FALSE, confianca |-> ConfiancaBusca(metricas)]
    /\ UNCHANGED <<mantoVars, cacheVars, buscaVars, redeVars, consVars, estVars>>

\* BaseTentaculo.gerar_proposta, lines 27-40
GerarPropostaBase(desvio) ==
    /\ proposta.n < MaxPropostas
    /\ proposta' = [n |-> proposta.n + 1, origem |-> "base",
                    ausente |-> FALSE, confianca |-> ConfiancaBase(desvio)]
    /\ UNCHANGED <<mantoVars, cacheVars, buscaVars, redeVars, consVars, estVars>>

\* bids are asked for while executar calls come and go
NextPropor ==
    \/ NextBusca
    \/ \E d \in DescricoesProposta : GerarPropostaBusca(d)
    \/ \E desvio \in Desvios : GerarPropostaBase(desvio)

\* no bid has been asked for
InitProposta == proposta = SemProposta

Init ==
    /\ InitManto /\ InitCache /\ InitBusca /\ InitRede
    /\ InitProposta /\ InitConsciencia /\ InitEstrategista

SpecManto == Init /\ [][NextManto]_vars

\* the interpreter runs the function to its end: no step waits forever
SpecMantoJusto == SpecManto /\ WF_vars(NextManto)

SpecCache == Init /\ [][NextCache]_vars

SpecBusca == Init /\ [][NextBusca]_vars

SpecRede == Init /\ [][NextRede]_vars

SpecConsciencia == Init /\ [][NextConsciencia]_vars

SpecEstrategista == Init /\ [][NextEstrategista]_vars

SpecPropor == Init /\ [][NextPropor]_vars

SpecBuscaConcorrente == Init /\ [][NextBuscaConcorrente]_vars

\* the event loop runs every callback that is ready: a finished or timed-out
\* future and a due timer are eventually handled
SpecBuscaJusto == SpecBusca /\ \A c \in Chamadores : WF_vars(Andamento(c))

(***************************************************************************)
(* Properties of Manto.decompor_e_orquestrar                               *)
(***************************************************************************)
Posicao(id) == CHOOSE i \in 1..Len(propostas) : propostas[i].id_tentaculo = id

\* C1 as first stated: the selected bid has the highest confianca, among
\* those the lowest custo_estimado, among those the earliest registration.
C1_SelecaoComCusto ==
    pc = "executar" =>
        \E i \in 1..Len(propostas) :
            /\ propostas[i].id_tentaculo = escolhido
            /\ \A j \in 1..Len(propostas) :
                  propostas[j].confianca <= propostas[i].confianca
            /\ \A j \in 1..Len(propostas) :
                  propostas[j].confianca = propostas[i].confianca
                      => propostas[j].custo_estimado >= propostas[i].custo_estimado
            /\ \A j \in 1..(i-1) :
                  ~(/\ propostas[j].confianca = propostas[i].confianca
                    /\ propostas[j].custo_estimado = propostas[i].custo_estimado)

\* C1 (amended): for every non-empty bid list the selected agent is the one
\* whose bid has the highest confianca; among bids tied on confianca the one
\* earliest in registration order wins, whatever its custo_estimado.
C1_SelecaoPorConfianca ==
    pc = "executar" =>
        \E i \in 1..Len(propostas) :
            /\ propostas[i].id_tentaculo = escolhido
            /\ \A j \in 1..Len(propostas) :
                  propostas[j].confianca <= propostas[i].confianca
            /\ \A j \in 1..(i-1) :
                  propostas[j].confianca < propostas[i].confianca

\* a selection among bids tied on confianca where a later bid is cheaper
C1_Witness ==
    /\ pc = "executar"
    /\ \E j \in 1..Len(propostas) :
          /\ j > Posicao(escolhido)
          /\ propostas[j].confianca = propostas[Posicao(escolhido)].confianca
          /\ propostas[j].custo_estimado < propostas[Posicao(escolhido)].custo_estimado

Despachadas == {despachos[i] : i \in 1..Len(despachos)}

\* C2: a task that got no bid is dispatched to no agent and has no result,
\* and the plan is never brought to its synthesis with a task left
\* unbroadcast: every task after a skipped one is still broadcast.
C2_SemPropostaNaoInterrompe ==
    /\ \A t \in puladas :
          t \notin DOMAIN resultados_finais /\ t \notin Despachadas
    /\ pc \in {"sintetizar", "sintetizado"} => transmitidas = Plano

\* the first task found no bidder and the second one was executed
C2_Witness ==
    /\ pc = "sintetizado"
    /\ "T1" \in puladas
    /\ "T2" \in DOMAIN resultados_finais

\* C3: tasks are handled strictly in plan order: the tasks broadcast and the
\* tasks dispatched are prefixes of the plan, and every task before a
\* broadcast or dispatched one has its result recorded or was skipped.
C3_OrdemDoPlano ==
    /\ Len(transmitidas) <= Len(Plano)
    /\ \A j \in 1..Len(transmitidas) :
          /\ transmitidas[j] = Plano[j]
          /\ \A i \in 1..(j-1) :
                Plano[i] \in (DOMAIN resultados_finais) \cup puladas
    /\ \A d \in 1..Len(despachos) :
          \E j \in 1..Len(transmitidas) :
              /\ transmitidas[j] = despachos[d]
              /\ \A i \in 1..(j-1) :
                    Plano[i] \in (DOMAIN resultados_finais) \cup puladas

\* the third task is dispatched after one recorded and one skipped task
C3_Witness ==
    /\ Len(despachos) = 2
    /\ despachos[2] = "T3"
    /\ "T1" \in DOMAIN resultados_finais
    /\ "T2" \in puladas

OpComLimpeza == ultimaOp.tipo \in {"get", "set", "size"}

\* C6: after any sequence of get, set, size and clear the store never holds
\* more than max_size entries.
C6_NuncaExcedeMaxSize == Len(cache) <= MaxSize

\* C7: a get of a key returns the value of its last set when that set is no
\* more than ttl_segundos old (and the key was not dropped by clear or by
\* the LRU pass), returns absent when it is older, and never returns an
\* entry older than the TTL.
C7_LeituraRespeitaTTL ==
    ultimaOp.tipo = "get" =>
        /\ ultimaOp.esperado = Ausente => ultimaOp.retorno = Ausente
        /\ (ultimaOp.esperado # Ausente /\ ultimaOp.chave \notin Range(ultimaOp.lru))
              => ultimaOp.retorno = ultimaOp.esperado
        /\ ultimaOp.retorno # Ausente =>
              /\ Contem(cache, ultimaOp.chave)
              /\ agora - Entrada(cache, ultimaOp.chave).timestamp <= TtlSegundos

\* a get performed more than ttl_segundos after the key's last set
C7_Witness ==
    /\ ultimaOp.tipo = "get"
    /\ ultimaOp.expirou
    /\ ultimaOp.retorno = Ausente

\* C8: with no entry expired, the lazy eviction that follows the set of
\* max_size + 1 distinct keys drops exactly one key, the least recently
\* touched one (touched by set or by a get hit), so a key promoted by a get
\* outlives a key that was set after it.
C8_EvictaMenosRecente ==
    OpComLimpeza =>
        /\ Len(ultimaOp.lru) <= 1
        /\ ultimaOp.lru # <<>> => ultimaOp.lru[1] = ultimaOp.menosRecente
        /\ ultimaOp.tipo \in {"get", "size"} => Len(cache) <= MaxSize
        /\ ultimaOp.tipo = "set" => Len(cache) <= MaxSize + 1

\* an LRU eviction that spares an entry older than the evicted one
C8_Witness ==
    /\ OpComLimpeza
    /\ Len(ultimaOp.lru) = 1
    /\ ultimaOp.protegida

\* C9: from every cache state, for every key k and value v, set(k, v) done
\* twice gives the same size() as set(k, v) done once, and a get(k) that
\* follows returns v (all within one tick of the clock).
C9_SetIdempotente ==
    \A k \in Chaves : \A d \in Dados :
        LET uma == SetCache(cache, k, d, agora, agora)
            duas == SetCache(uma, k, d, agora, agora)
        IN  /\ SizeRetorno(duas, agora) = SizeRetorno(uma, agora)
            /\ GetRetorno(duas, k, agora) = d
            /\ GetRetorno(SizeCache(duas, agora), k, agora) = d

\* the same set(k, v) was just performed twice in a row
C9_Witness ==
    /\ ultimaOp.tipo = "set"
    /\ ultimaOp.repetida
    /\ Len(cache) = MaxSize

\* C10: a get hit does not extend an entry's lifetime: the stored timestamp
\* of every entry is always the time of the last set of its key, and after
\* any get, set or size no entry is left whose last set is more than
\* ttl_segundos old, however often it was read.
C10_LeituraNaoRenova ==
    /\ \A i \in 1..Len(cache) :
          /\ cache[i].chave \in DOMAIN ultimoSet
          /\ cache[i].timestamp = ultimoSet[cache[i].chave].quando
    /\ OpComLimpeza =>
          \A i \in 1..Len(cache) :
              agora - ultimoSet[cache[i].chave].quando <= TtlSegundos

\* an entry that had been read expires all the same
C10_Witness ==
    /\ OpComLimpeza
    /\ ultimaOp.expirouLida
    /\ \A i \in 1..Len(cache) : agora - cache[i].timestamp <= TtlSegundos

\* the keys of a store, in its order
OrdemDe(c) == [i \in 1..Len(c) |-> c[i].chave]

\* the order of the store before an operation, cut down to the keys in s
OrdemAnterior(s) == SelectSeq(OrdemDe(cache), LAMBDA k : k \in s)

\* C11: from every cache state, a get of an absent key and a size() leave
\* the surviving entries in the order they had; a get hit moves the
\* requested key to the most recently used end and keeps the order of all
\* the other entries.
C11_OrdemPreservada ==
    /\ OrdemDe(SizeCache(cache, agora))
          = OrdemAnterior(ChavesDe(SizeCache(cache, agora)))
    /\ \A k \in Chaves :
          LET depois == GetCache(cache, k, agora)
          IN  IF GetRetorno(cache, k, agora) = Ausente
              THEN OrdemDe(depois) = OrdemAnterior(ChavesDe(depois))
              ELSE OrdemDe(depois)
                      = Append(OrdemAnterior(ChavesDe(depois) \ {k}), k)

\* a get hit has just moved an entry past one that was set after it
C11_Witness ==
    /\ ultimaOp.tipo = "get"
    /\ ultimaOp.retorno # Ausente
    /\ Len(cache) = 2
    /\ cache[2].chave = ultimaOp.chave
    /\ cache[2].timestamp < cache[1].timestamp

\* C12: an attempt that succeeds is the last attempt of its call: whatever
\* failed before it, the call makes at most MAX_RETRIES attempts, returns in
\* the very step of the success, counts as a success, and hands back the
\* result of that attempt.
C12_SucessoEncerra ==
    \A c \in Chamadores :
        LET ch == chamada[c]
            n == Len(ch.historico)
        IN  /\ n <= MAX_RETRIES
            /\ \A i \in 1..n :
                  ch.historico[i] = "ok" =>
                      /\ i = n
                      /\ ch.pc = "retornou"
                      /\ ch.retorno.tipo \in {"resultado", "erro_interno"}
                      /\ ch.retorno.tipo = "resultado" =>
                            ch.retorno.valor =
                                FormatarResultados(Resultado(ch.consulta, ch.ordem, FALSE))

C12_Witness ==
    \E c \in Chamadores :
        /\ chamada[c].pc = "retornou"
        /\ chamada[c].retorno.tipo = "resultado"
        /\ chamada[c].historico = <<"erro", "timeout", "ok">>
        /\ metricas.consultas_sucesso = 1

\* the failed attempts in an attempt log
Falhas(h) == Len(SelectSeq(h, LAMBDA d : d # "ok"))

RECURSIVE Soma(_)
Soma(s) == IF s = <<>> THEN 0 ELSE Head(s) + Soma(Tail(s))

\* 2^0 + ... + 2^(n-1)
RECURSIVE SomaPotencias(_)
SomaPotencias(n) == IF n = 0 THEN 0 ELSE Pot2(n - 1) + SomaPotencias(n - 1)

\* C13: the i-th wait of a call (i from 0) lasts BACKOFF_BASE_SEGUNDOS * 2^i;
\* there is one wait per failed attempt except that the MAX_RETRIES-th
\* attempt is followed by none; a call that succeeded on attempt N has
\* waited at least base * (2^0 + ... + 2^(N-2)) in all.
C13_EsperaExponencial ==
    \A c \in Chamadores :
        LET ch == chamada[c]
            f == Falhas(ch.historico)
        IN  /\ \A i \in 1..Len(ch.esperas) :
                  ch.esperas[i] = BACKOFF_BASE_SEGUNDOS * Pot2(i - 1)
            /\ Len(ch.esperas) = IF f < MAX_RETRIES THEN f ELSE MAX_RETRIES - 1
            /\ (ch.pc = "retornou" /\ ch.retorno.tipo = "resultado") =>
                  Soma(ch.esperas) >=
                      BACKOFF_BASE_SEGUNDOS * SomaPotencias(Len(ch.historico) - 1)

C13_Witness ==
    \E c \in Chamadores :
        /\ chamada[c].pc = "retornou"
        /\ chamada[c].retorno.tipo = "falha"
        /\ Len(chamada[c].historico) = MAX_RETRIES
        /\ chamada[c].esperas = <<1, 2>>

\* C14: a call whose attempts all fail, by timeout or by exception alike,
\* goes on until it has made MAX_RETRIES attempts and then returns the
\* failure with no result; it never gives up earlier nor tries once more,
\* and every failed attempt before the last is followed by its wait
\* whatever the kind of the failure.
C14_ExaustaoExata ==
    \A c \in Chamadores :
        LET ch == chamada[c]
            n == Len(ch.historico)
            soFalhas == n > 0 /\ Falhas(ch.historico) = n
        IN  /\ (soFalhas /\ n < MAX_RETRIES) => ch.pc \in {"buscando", "esperando"}
            /\ (soFalhas /\ n >= MAX_RETRIES) =>
                  /\ n = MAX_RETRIES
                  /\ ch.pc = "retornou"
                  /\ ch.retorno.tipo = "falha"
                  /\ ch.retorno.valor = FormatarResultados(SemResultado)
            /\ (ch.pc = "retornou" /\ ch.retorno.tipo = "falha") =>
                  (soFalhas /\ n = MAX_RETRIES)
            /\ \A i \in 1..n :
                  (ch.historico[i] \in {"erro", "timeout", "travada"} /\ i < MAX_RETRIES)
                      => Len(ch.esperas) >= i

C14_Witness ==
    \E c \in Chamadores :
        /\ chamada[c].pc = "retornou"
        /\ chamada[c].retorno.tipo = "falha"
        /\ chamada[c].historico = <<"timeout", "timeout", "timeout">>
        /\ metricas.consultas_falha = 1

\* C15: no call makes more than MAX_RETRIES attempts, and a call whose
\* external operation never returns still returns: the attempt on the stuck
\* operation ends at the timeout and the call goes on to its backoff, its
\* next attempt or the final failure.
C15_TerminaSemEsperarTravada ==
    /\ [](\A c \in Chamadores :
             /\ Len(chamada[c].historico) <= MAX_RETRIES
             /\ chamada[c].pc = "buscando" => Len(chamada[c].historico) < MAX_RETRIES)
    /\ \A c \in Chamadores :
          (chamada[c].pc = "buscando" /\ chamada[c].travada)
              ~> (chamada[c].pc = "retornou" /\ ~chamada[c].travada)

C15_Witness ==
    \E c \in Chamadores :
        /\ chamada[c].pc = "retornou"
        /\ chamada[c].retorno.tipo = "falha"
        /\ chamada[c].historico = <<"travada", "travada", "travada">>

\* the time spent in the attempts of an attempt log, in ms
RECURSIVE Decorrido(_)
Decorrido(h) == IF h = <<>> THEN 0 ELSE Duracao(Head(h)) + Decorrido(Tail(h))

\* C16: the elapsed time that a call which went through the retry loop
\* reports, and that executar adds to tempo_total_ms, is the time of all the
\* attempts the call made (with or without the waits between them).
C16_TempoAcumulado ==
    \A c \in Chamadores :
        LET ch == chamada[c]
        IN  (ch.pc = "retornou" /\ Len(ch.historico) > 0) =>
                /\ Decorrido(ch.historico) <= ch.retorno.latencia
                /\ ch.retorno.latencia <= Decorrido(ch.historico) + 1000 * Soma(ch.esperas)
                /\ metricas.total_consultas = 1 =>
                       metricas.tempo_total_ms = ch.retorno.latencia

\* C17: while a call is inside executar the status is OCUPADO, and once
\* every call has returned, by whichever return path, the status is ATIVO
\* again.
C17_OcupadoSoDuranteChamada ==
    /\ (\E c \in Chamadores : chamada[c].pc \in {"buscando", "esperando"})
          => status = "OCUPADO"
    /\ (Ocioso /\ iniciadas > 0) => status = "ATIVO"

\* C18: whatever the mission text and whatever the external search does in
\* each attempt (a result, a malformed result, an exception, a timeout, no
\* answer at all), a call that is over has handed a value to its caller,
\* never an exception: a failure inside is reported as a failure text.
C18_NuncaLevanta ==
    \A c \in Chamadores :
        LET ch == chamada[c]
        IN  /\ ch.retorno.tipo # "excecao"
            /\ ch.pc = "retornou" =>
                  ch.retorno.tipo \in {"sem_termo", "cache", "resultado", "falha", "erro_interno"}
            /\ ch.pc # "retornou" => ch.retorno.tipo = "nenhum"

C18_Witness ==
    \E c \in Chamadores :
        /\ chamada[c].pc = "retornou"
        /\ chamada[c].retorno.tipo = "erro_interno"
        /\ chamada[c].historico = <<"erro", "ok">>
        /\ cache_buscas = <<>>

\* the call of caller c comes right after the last returned call, asks for
\* the same query, and began less than the expiry after that call ended
SegundaChamada(c) ==
    /\ chamada[c].pc # "livre"
    /\ anterior.ordem > 0
    /\ chamada[c].ordem = anterior.ordem + 1
    /\ chamada[c].consulta # ""
    /\ chamada[c].consulta = anterior.consulta
    /\ chamada[c].inicioEm - anterior.fimEm < ExpiracaoCache

\* the search attempts begun so far by the call of caller c
Tentativas(c) ==
    Len(chamada[c].historico) + (IF chamada[c].pc = "buscando" THEN 1 ELSE 0)

\* C19 as stated: of two calls in sequence with the same query within the
\* expiry, the two together issue the external search exactly once and the
\* second returns the cached result.
C19_UmaBuscaSo ==
    \A c \in Chamadores :
        SegundaChamada(c) =>
            /\ anterior.tentativas + Tentativas(c) = 1
            /\ chamada[c].pc = "retornou"
            /\ chamada[c].retorno.tipo = "cache"

\* C19: when the first of two calls in sequence returned a fresh result,
\* after however many attempts, the second call with the same query within
\* the expiry makes no search attempt and returns the text stored by the
\* first.
C19_SegundaVemDoCache ==
    \A c \in Chamadores :
        (SegundaChamada(c) /\ anterior.tipo = "resultado") =>
            /\ chamada[c].pc = "retornou"
            /\ chamada[c].retorno.tipo = "cache"
            /\ chamada[c].historico = <<>>
            /\ chamada[c].retorno.valor =
                  FormatarResultados(Resultado(anterior.consulta, anterior.ordem, FALSE))

C19_Witness ==
    \E c \in Chamadores :
        /\ SegundaChamada(c)
        /\ anterior.tipo = "resultado"
        /\ anterior.tentativas = 2
        /\ chamada[c].retorno.tipo = "cache"
        /\ status = "ATIVO"

\* C20: a call that has exhausted its attempts returns the failure text,
\* not an exception, and leaves no entry for its query in the cache; the
\* next call with the same query therefore is not served from the cache
\* and issues the external search again.
C20_FalhaNaoGuardada ==
    \A c \in Chamadores :
        LET ch == chamada[c]
        IN  /\ (ch.pc = "retornou" /\ Len(ch.historico) = MAX_RETRIES
                                  /\ Falhas(ch.historico) = MAX_RETRIES) =>
                  /\ ch.retorno.tipo = "falha"
                  /\ ch.ordem = iniciadas =>
                        ~ContemBusca(cache_buscas, GerarHashQuery(ch.consulta))
            /\ (ch.pc # "livre" /\ ch.consulta # "" /\ anterior.tipo = "falha"
                   /\ ch.ordem = anterior.ordem + 1 /\ ch.consulta = anterior.consulta) =>
                  /\ ch.retorno.tipo # "cache"
                  /\ Tentativas(c) >= 1

C20_Witness ==
    \E c \in Chamadores :
        /\ anterior.tipo = "falha"
        /\ chamada[c].ordem = anterior.ordem + 1
        /\ chamada[c].consulta = anterior.consulta
        /\ chamada[c].inicioEm = anterior.fimEm
        /\ chamada[c].pc = "retornou"
        /\ chamada[c].retorno.tipo = "resultado"

\* the agents that accept the task in a round of answers
Aceitam(r) == {a \in Tentaculos : r[a].aceita}

\* C21: the list returned by a broadcast holds one bid of every agent that
\* accepted the task and no bid of an agent that declined, in the order in
\* which the agents were registered whatever their confidence; it is the
\* empty list when nobody accepts.
C21_UmaPropostaPorAceite ==
    ultimaRede.tipo = "broadcast" =>
        LET r == ultimaRede.resposta
            ps == ultimaRede.retorno
        IN  /\ {ps[i].id_tentaculo : i \in 1..Len(ps)} = Aceitam(r)
            /\ Len(ps) = Cardinality(Aceitam(r))
            /\ \A i, j \in 1..Len(ps) :
                  i < j => ps[i].id_tentaculo < ps[j].id_tentaculo
            /\ \A i \in 1..Len(ps) :
                  ps[i].confianca = r[ps[i].id_tentaculo].confianca
            /\ Aceitam(r) = {} => ps = <<>>

C21_Witness ==
    /\ ultimaRede.tipo = "broadcast"
    /\ Len(ultimaRede.retorno) = 2
    /\ ultimaRede.retorno[1].confianca < ultimaRede.retorno[2].confianca
    /\ ~ultimaRede.resposta[1].aceita

\* C22: a call of executar_missao with an id outside the registry returns
\* the routing-failure text and invokes no agent; with a registered id it
\* invokes the executar of that agent once, no other agent, and returns
\* what that executar returned.
C22_RotaOuExecucaoUnica ==
    [][ (ultimaRede'.n # ultimaRede.n /\ ultimaRede'.tipo = "executar_missao") =>
          LET id == ultimaRede'.id
          IN  IF id \in Tentaculos
              THEN /\ invocacoes'[id] = invocacoes[id] + 1
                   /\ \A a \in Tentaculos \ {id} : invocacoes'[a] = invocacoes[a]
                   /\ ultimaRede'.retorno = <<ultimaRede'.desfecho>>
              ELSE /\ invocacoes' = invocacoes
                   /\ ultimaRede'.retorno = <<ErroRota>> ]_vars

C22_Witness ==
    /\ ultimaRede.tipo = "executar_missao"
    /\ ultimaRede.id = NumTentaculos + 1
    /\ ultimaRede.retorno = <<ErroRota>>
    /\ \E a \in Tentaculos : invocacoes[a] = 1

\* C23: the routing-failure text is never recorded by the coordinator as
\* the result of a task.
C23_FalhaDeRotaNaoRegistrada ==
    \A t \in DOMAIN resultados_finais : resultados_finais[t] # ErroRota

\* C24: a failure payload returned by the dispatched agent is stored as the
\* result of its task like any other result, and the task that follows it
\* in the plan is broadcast all the same.
C24_FalhaDoAgenteNaoInterrompe ==
    /\ \A k \in 1..Len(despachos) : despachos[k] \in DOMAIN resultados_finais
    /\ \A i \in 1..(Len(Plano) - 1) :
          (Plano[i] \in DOMAIN resultados_finais /\ resultados_finais[Plano[i]] = "falha") =>
              \/ pc = "broadcast" /\ indice = i + 1
              \/ Len(transmitidas) > i /\ transmitidas[i + 1] = Plano[i + 1]

C24_Witness ==
    /\ DOMAIN resultados_finais = {"T1", "T2"}
    /\ resultados_finais["T1"] = "falha"
    /\ resultados_finais["T2"] = "ok"
    /\ despachos = <<"T1", "T2">>

\* C25: a mission whose tactical plan has no step that is not blank ends
\* with a failure reported on the bus and with no specialist invoked.
C25_SemPlanoReportaFalha ==
    (cpc = "retornou" /\ plano_tatico # <<>> /\ ProximoPasso(plano_tatico, 1) = 0) =>
        /\ delegacoes = 0
        /\ \E i \in 1..Len(eventos) : eventos[i] = "FALHA_CRITICA"

\* C28: a publicar never throws the exception of a subscriber into the
\* emitter and never leaves the emitter waiting for a subscriber's queue
\* to accept the event.
C28_PublicarNaoPrendeEmissor ==
    /\ cpc # "levantou_assinante"
    /\ ~(EmPublicacao /\ restantes # <<>> /\ Head(restantes).classe = "fila_cheia")

\* the steps of the plan that carry the id d
PassosComId(d) == {j \in 1..Len(passos) : passos[j].id = d}

C26_ProporNaoAltera ==
    [][proposta' # proposta =>
          UNCHANGED <<status, cache_buscas, metricas, chamada, invocacoes>>]_vars

\* a bid of TentaculoBusca asked for while an executar is in flight, with a
\* stored search and counted queries
C26_Witness ==
    /\ proposta.n > 0
    /\ proposta.origem = "busca"
    /\ status = "OCUPADO"
    /\ cache_buscas # <<>>
    /\ metricas.total_consultas > 0

\* C27: every bid produced carries a confianca between 0 and 1
C27_ConfiancaNoIntervalo ==
    (proposta.n > 0 /\ ~proposta.ausente) =>
        (proposta.confianca >= 0 /\ proposta.confianca <= 100)

\* a bid of TentaculoBusca with successes and failures in its history
C27_Witness ==
    /\ proposta.origem = "busca"
    /\ ~proposta.ausente
    /\ metricas.consultas_sucesso > 0
    /\ metricas.consultas_falha > 0
    /\ proposta.confianca = ConfiancaBusca(metricas)

\* the store after caller c has run one whole _verificar_cache (as it enters
\* executar) or one whole _adicionar_cache (as its search succeeds) on cb
OperacaoInteira(c, cb) ==
    \/ /\ chamada[c].pc \in {"livre", "retornou"}
       /\ chamada'[c].pc \in {"buscando", "retornou"}
       /\ cache_buscas' = VerificarCache(cb, chamada'[c].consulta, relogio).cache
    \/ /\ chamada[c].pc = "buscando"
       /\ chamada'[c].pc = "retornou"
       /\ \E m \in BOOLEAN :
             cache_buscas' =
                AdicionarCache(cb, chamada[c].consulta,
                    FormatarResultados(Resultado(chamada[c].consulta, chamada[c].ordem, m)),
                    relogio)

\* C30: with executar calls interleaved on one TentaculoBusca, the store
\* never holds more than TAMANHO_MAX_CACHE entries, and every change of the
\* store is one caller's whole check, eviction and insertion applied to the
\* store as the previous step left it, while no other caller's call moves on
C30_CacheAtomicoELimitado ==
    [][/\ Len(cache_buscas') <= TamanhoMaxCache
       /\ cache_buscas' # cache_buscas =>
             \E c \in Chamadores :
                /\ OperacaoInteira(c, cache_buscas)
                /\ \A x \in Chamadores \ {c} :
                      chamada'[x] \in {chamada[x], ChamadaLivre}]_vars

\* two calls that overlapped have both stored their result, and the second
\* insertion evicted the entry of the first
C30_Witness ==
    /\ \A c \in Chamadores :
          chamada[c].pc = "retornou" /\ chamada[c].retorno.tipo = "resultado"
    /\ chamada[1].consulta # chamada[2].consulta
    /\ chamada[1].fimEm > chamada[2].inicioEm
    /\ chamada[2].fimEm > chamada[1].inicioEm
    /\ Len(cache_buscas) = TamanhoMaxCache

\* C31: within one decompor_e_orquestrar no task is dispatched twice, the
\* recorded results are exactly those of the dispatched tasks, and a result
\* once recorded stays as it is until the call ends
C31_UmResultadoPorDespacho ==
    [][/\ \A i, j \in 1..Len(despachos') :
             despachos'[i] = despachos'[j] => i = j
       /\ DOMAIN resultados_finais' = Range(despachos')
       /\ pc \notin {"ocioso", "sintetizado"} =>
             \A t \in DOMAIN resultados_finais :
                /\ t \in DOMAIN resultados_finais'
                /\ resultados_finais'[t] = resultados_finais[t]]_vars

\* a run that dispatched two tasks and skipped one, at its synthesis
C31_Witness ==
    /\ pc = "sintetizado"
    /\ Len(despachos) = 2
    /\ puladas # {}
    /\ DOMAIN resultados_finais = Range(despachos)

\* the routed specialist of the current step is not in self.tentaculos
SemEspecialista ==
    /\ cpc = "pub_passo"
    /\ restantes = <<>>
    /\ RotearTarefa(plano_tatico[passo_i]) \notin Especialistas

\* C32: in processar_missao, when the specialist routed for a step is not
\* registered, the next thing the function does is publish FALHA_CRITICA for
\* that step, and after that no step is announced or executed in this call
C32_FalhaCriticaInterrompe ==
    [][/\ (SemEspecialista /\ cpc' # cpc) =>
             /\ eventos' = Append(eventos, "FALHA_CRITICA")
             /\ passo_i' = passo_i
             /\ delegacoes' = delegacoes
       /\ ("FALHA_CRITICA" \in Range(eventos) /\ cpc' # "pub_inicio") =>
             /\ eventos' = eventos
             /\ passo_i' = passo_i
             /\ delegacoes' = delegacoes]_vars

\* the call returned after a failure at a step that a further, non-blank
\* step follows in the plan
C32_Witness ==
    /\ cpc = "retornou"
    /\ eventos[Len(eventos)] = "FALHA_CRITICA"
    /\ passo_i < Len(plano_tatico)
    /\ ~EmBranco(plano_tatico[passo_i + 1])

\* the callers whose executar leaves its retry step in this step
SaemDoRetry ==
    {c \in Chamadores :
        /\ chamada[c].pc \in {"buscando", "esperando"}
        /\ chamada'[c].pc = "retornou"}

\* C33: with executar calls interleaved on one TentaculoBusca,
\* total_consultas is always consultas_sucesso + consultas_falha, and it
\* grows by exactly one for each call that comes out of its retry step and
\* by nothing else
C33_TotalEhSomaDosDesfechos ==
    [][/\ metricas'.total_consultas =
             metricas'.consultas_sucesso + metricas'.consultas_falha
       /\ metricas'.total_consultas =
             metricas.total_consultas + Cardinality(SaemDoRetry)]_vars

\* two calls that overlapped have left their retry steps, one with a result
\* and one after exhausting its attempts
C33_Witness ==
    /\ \A c \in Chamadores : chamada[c].pc = "retornou"
    /\ {chamada[c].retorno.tipo : c \in Chamadores} = {"resultado", "falha"}
    /\ metricas.total_consultas = 2
    /\ metricas.consultas_sucesso = 1
    /\ metricas.consultas_falha = 1

\* C34: in executar_plano the steps after the current one are left as they
\* are; when the current step ends falhou the call returns at once with
\* sucesso false, so no later step is started; and a returned sucesso of
\* true means that every step of the plan is concluido
C34_FalhaInterrompePlano ==
    [][/\ epc = "executando" =>
             \A j \in (passo_e + 1)..Len(passos) :
                passos'[j] = passos[j] \/ (j = passo_e' /\ epc' = "executando")
       /\ (epc = "executando" /\ passos'[passo_e].status = "falhou") =>
             /\ epc' = "retornou"
             /\ ~resultadoEst'.sucesso
             /\ \A j \in (passo_e + 1)..Len(passos) : passos'[j] = passos[j]
       /\ (epc' = "retornou" /\ resultadoEst'.sucesso) =>
             \A i \in 1..Len(passos') : passos'[i].status = "concluido"]_vars

\* a plan whose first step failed while a second step was still to come
C34_Witness ==
    /\ epc = "retornou"
    /\ resultadoEst.executou
    /\ ~resultadoEst.sucesso
    /\ Len(passos) = 2
    /\ passos[1].status = "falhou"
    /\ passos[2].status = "pendente"

SoSucessos(c) == \A i \in 1..Len(chamada[c].historico) : chamada[c].historico[i] = "ok"

\* C36: of two executar calls for the same query whose search attempts
\* succeed, begun less than the expiry apart and interleaved in any way, at
\* most one issues the external search; the one that starts later is served
\* from the cache
C36_UmaBuscaPorConsulta ==
    \A c, x \in Chamadores :
        (/\ c # x
         /\ chamada[c].pc # "livre" /\ chamada[x].pc # "livre"
         /\ chamada[c].consulta # ""
         /\ chamada[c].consulta = chamada[x].consulta
         /\ chamada[c].ordem < chamada[x].ordem
         /\ chamada[x].inicioEm - chamada[c].inicioEm < ExpiracaoCache
         /\ SoSucessos(c) /\ SoSucessos(x)) =>
            /\ Tentativas(c) + Tentativas(x) <= 1
            /\ chamada[x].pc = "retornou" => chamada[x].retorno.tipo = "cache"

\* C37: while some executar call is in progress, alone or together with
\* others, status is OCUPADO
C37_OcupadoEnquantoHouverChamada ==
    ~Ocioso => status = "OCUPADO"

\* the caller whose executar stores a fresh result in this step
Guarda(c) ==
    /\ chamada[c].pc = "buscando"
    /\ chamada'[c].pc = "retornou"
    /\ chamada'[c].retorno.tipo = "resultado"

\* the caller whose executar is answered by the cache in this step
Acerta(c) ==
    /\ chamada[c].pc \in {"livre", "retornou"}
    /\ chamada'[c].pc = "retornou"
    /\ chamada'[c].retorno.tipo = "cache"

TipoPublicado == eventos[Len(eventos)]

\* C39: a publicar awaits every callback registered for the type of its
\* event exactly once and in the order of registration, and no callback
\* registered for another type; with no callback registered for the type it
\* awaits nothing and leaves the subscriptions as they are
C39_EntregaUmaVezEmOrdem ==
    [][/\ (restantes # <<>> /\ restantes' = <<>>) =>
             entregas' = assinantes[TipoPublicado]
       /\ \A i \in 1..Len(entregas') : entregas'[i].tipo = eventos'[Len(eventos')]
       /\ (eventos' # eventos /\ assinantes[eventos'[Len(eventos')]] = <<>>) =>
             /\ entregas' = <<>>
             /\ restantes' = <<>>
             /\ assinantes' = assinantes]_vars

====
